---- MODULE Spec2Model ----
(***************************************************************************)
(* update_ip v0.1: the IP-resolution core (ip_services/mod.rs) and the     *)
(* TLS + HTTP/1.1 request pipeline (requests.rs).                          *)
(*                                                                         *)
(* Spec           run cycles: request_ip applied again and again to the    *)
(*                result of the previous cycle, under any configuration.   *)
(* TransportSpec  one call of request_http1_tls_response, stage by stage,  *)
(*                with its detached connection driver.                     *)
(***************************************************************************)
EXTENDS Integers, Sequences, FiniteSets, TLC

VARIABLES
    results,        \* UpdateIpResults.ip_service_result: the last run's IpServiceResult
    prior,          \* the IpServiceResult the last request_ip call was given
    config,         \* Config.ip_services the last request_ip call was given
    cycles,         \* number of request_ip calls made so far
    resolved,       \* history: the address (Option) each cycle returned, oldest first
    lookup_calls,   \* lookup requests the last cycle made
    rng_calls,      \* gen_range calls the last cycle made
    t_req,          \* the request's uri: [host, scheme, port], each an Option
    t_pc,           \* position of request_http1_tls_response
    t_host,         \* `host` of line 33 (Option, None before it is bound)
    t_addr,         \* `addr` of line 33 (Option, None before it is bound)
    t_stages,       \* history: the stages attempted so far, with their outcome
    t_conn,         \* the spawned connection driver task
    t_ret           \* what the call returned (Option of a Result)

cycle_vars == <<results, prior, config, cycles, resolved, lookup_calls, rng_calls>>
transport_vars == <<t_req, t_pc, t_host, t_addr, t_stages, t_conn, t_ret>>
vars == <<results, prior, config, cycles, resolved, lookup_calls, rng_calls,
          t_req, t_pc, t_host, t_addr, t_stages, t_conn, t_ret>>

(***************************************************************************)
(* Bounds                                                                  *)
(***************************************************************************)
MaxServices == 2
MaxCycles == 3

(***************************************************************************)
(* Option<T>: None is the empty tuple, Some(x) the one-element tuple.      *)
(***************************************************************************)
None == <<>>
Some(x) == <<x>>
IsSome(o) == o # None
Unwrap(o) == o[1]

Urls == {"https://a.example/ip", "https://b.example/ip", "https://c.example/ip"}
ResponseTypes == {"address_as_body"}
Addresses == {"1.2.3.4", "1.2.3.5"}

\* Config.ip_services: Vec<(String, String)>, any order, repeats allowed.
IpServices == UNION {[1..n -> Urls \X ResponseTypes] : n \in 0..MaxServices}

\* what the lookup request of one cycle comes back with
LookupErrors == {"failed to get host and address from uri"}
LookupOutcomes == {[ok |-> TRUE, val |-> a] : a \in Addresses}
                      \cup {[ok |-> FALSE, val |-> e] : e \in LookupErrors}

(***************************************************************************)
(* ip_services/mod.rs                                                      *)
(***************************************************************************)
IpServiceResult_new ==
    [service |-> None, address |-> None, prev_address |-> None,
     address_changed |-> FALSE, errors |-> <<>>]

\* lines 12-15: the last run's address, else the last run's prev_address
carry_prev_address_no_fallback(last) == last.address
carry_prev_address(last) ==
    IF IsSome(last.address) THEN Some(Unwrap(last.address)) ELSE last.prev_address

\* lines 40-49
has_address_changed_first_unchanged(last, ip_service_result) ==
    IF IsSome(last.address) /\ IsSome(ip_service_result.address)
    THEN Unwrap(last.address) # Unwrap(ip_service_result.address)
    ELSE FALSE
has_address_changed_option_compare(last, ip_service_result) ==
    IF IsSome(last.address)
    THEN last.address # ip_service_result.address
    ELSE IsSome(ip_service_result.address)
has_address_changed(last, ip_service_result) ==
    IF IsSome(last.address) /\ IsSome(ip_service_result.address)
    THEN Unwrap(last.address) # Unwrap(ip_service_result.address)
    ELSE IF last.address = None /\ IsSome(ip_service_result.address)
    THEN TRUE
    ELSE FALSE

\* lines 61-69: index (from 0) of the first entry whose url is the last service
MatchingIndexes(service, ip_services) ==
    {i \in 0..(Len(ip_services) - 1) : ip_services[i + 1][1] = service}
prev_index_wrong_field(last, ip_services) ==
    IF IsSome(last.address) /\ MatchingIndexes(Unwrap(last.address), ip_services) # {}
    THEN LET m == MatchingIndexes(Unwrap(last.address), ip_services)
         IN Some(CHOOSE i \in m : \A j \in m : i <= j)
    ELSE None
prev_index(last, ip_services) ==
    IF IsSome(last.service) /\ MatchingIndexes(Unwrap(last.service), ip_services) # {}
    THEN LET m == MatchingIndexes(Unwrap(last.service), ip_services)
         IN Some(CHOOSE i \in m : \A j \in m : i <= j)
    ELSE None

\* lines 73-76
length(last, ip_services) ==
    IF IsSome(prev_index(last, ip_services))
    THEN Len(ip_services) - 1
    ELSE Len(ip_services)

\* lines 78-79: the values rng.gen_range(0..length) can return; the call is
\* reached only with two or more services (0 stands for "not drawn")
gen_range(last, ip_services) ==
    IF Len(ip_services) < 2 THEN {0} ELSE 0..(length(last, ip_services) - 1)
gen_range_calls(ip_services) == IF Len(ip_services) < 2 THEN 0 ELSE 1

\* lines 79-84: the drawn index, moved past the previous one
random_index_strict(last, ip_services, drawn) ==
    LET p == prev_index(last, ip_services)
    IN IF IsSome(p) /\ drawn > Unwrap(p) THEN drawn + 1 ELSE drawn
random_index(last, ip_services, drawn) ==
    LET p == prev_index(last, ip_services)
    IN IF IsSome(p) /\ drawn >= Unwrap(p) THEN drawn + 1 ELSE drawn

\* lines 51-87
get_ip_service_none_below_two(last, ip_services, drawn) ==
    IF Len(ip_services) <= 1 THEN None
    ELSE Some(ip_services[random_index(last, ip_services, drawn) + 1])
get_ip_service(last, ip_services, drawn) ==
    IF Len(ip_services) = 0 THEN None
    ELSE IF Len(ip_services) = 1 THEN Some(ip_services[1])
    ELSE Some(ip_services[random_index(last, ip_services, drawn) + 1])

\* lines 20-25
no_ip_service_silent(ip_service_result) == ip_service_result
no_ip_service(ip_service_result) ==
    [ip_service_result EXCEPT !.errors = Append(@, "failed to find ip service")]

\* address_as_body::request_address_as_response_body (line 32): the trimmed
\* response body becomes the address; a failure leaves the address empty
\* and appends its error
request_address_as_response_body(ip_service_result, outcome) ==
    IF outcome.ok
    THEN [ip_service_result EXCEPT !.address = Some(outcome.val)]
    ELSE [ip_service_result EXCEPT !.errors = Append(@, outcome.val)]

\* lines 8-38, with the caller storing the returned result as the last run's
request_ip(ip_services, drawn, outcome) ==
    LET created == [IpServiceResult_new EXCEPT
                       !.prev_address = carry_prev_address(results)]
        found == get_ip_service(results, ip_services, drawn)
    IN /\ cycles < MaxCycles
       /\ prior' = results
       /\ config' = ip_services
       /\ cycles' = cycles + 1
       /\ rng_calls' = gen_range_calls(ip_services)
       /\ IF found = None
          THEN /\ results' = no_ip_service(created)
               /\ lookup_calls' = 0
          ELSE LET ip_service == Unwrap(found)[1]
                   with_service == [created EXCEPT !.service = Some(ip_service)]
                   answered == request_address_as_response_body(with_service, outcome)
               IN /\ results' = [answered EXCEPT !.address_changed =
                                     has_address_changed(results, answered)]
                  /\ lookup_calls' = 1
       /\ resolved' = Append(resolved, results'.address)

RequestIp ==
    /\ \E ip_services \in IpServices :
         \E drawn \in gen_range(results, ip_services) :
           \E outcome \in LookupOutcomes :
             request_ip(ip_services, drawn, outcome)
    /\ UNCHANGED transport_vars

(***************************************************************************)
(* requests.rs                                                             *)
(***************************************************************************)
Hosts == {"example.com"}
Schemes == {"http", "https", "ftp"}
Ports == {80, 8080}

\* the parts of req.uri() the call reads; a uri without an authority has
\* neither host nor port, and a scheme comes only with an authority
Uris ==
    {[host |-> Some(h), scheme |-> s, port |-> p] :
        h \in Hosts,
        s \in {None} \cup {Some(x) : x \in Schemes},
        p \in {None} \cup {Some(x) : x \in Ports}}
    \cup {[host |-> None, scheme |-> None, port |-> None]}

Ok(v) == [ok |-> TRUE, val |-> v]
Err(e) == [ok |-> FALSE, val |-> e]

\* u16::to_string (line 96)
Digits == <<"0", "1", "2", "3", "4", "5", "6", "7", "8", "9">>
RECURSIVE u16_to_string(_)
u16_to_string(n) ==
    IF n < 10 THEN Digits[n + 1]
    ELSE u16_to_string(n \div 10) \o Digits[(n % 10) + 1]

\* lines 83-106
create_host_and_authority_https_only(uri) ==
    IF uri.host = None THEN None
    ELSE LET host == Unwrap(uri.host)
             scheme == IF IsSome(uri.scheme) THEN Unwrap(uri.scheme) ELSE "https"
             port == IF IsSome(uri.port) THEN u16_to_string(Unwrap(uri.port))
                     ELSE IF scheme = "https" THEN "443"
                     ELSE "80"
         IN Some(<<host, host \o ":" \o port>>)
create_host_and_authority(uri) ==
    IF uri.host = None THEN None
    ELSE LET host == Unwrap(uri.host)
             scheme == IF IsSome(uri.scheme) THEN Unwrap(uri.scheme) ELSE "https"
             port == IF IsSome(uri.port) THEN u16_to_string(Unwrap(uri.port))
                     ELSE IF scheme = "http" THEN "80"
                     ELSE "443"
             authority == host \o ":" \o port
         IN Some(<<host, authority>>)

Attempted(stage, ok) == Append(t_stages, [stage |-> stage, ok |-> ok])

\* lines 33-36
HostAndAuthority ==
    /\ t_pc = "create_host_and_authority"
    /\ LET found == create_host_and_authority(t_req)
       IN IF found = None
          THEN /\ t_ret' = Some(Err("failed to get host and address from uri"))
               /\ t_pc' = "returned"
               /\ t_stages' = Attempted("create_host_and_authority", FALSE)
               /\ UNCHANGED <<t_host, t_addr>>
          ELSE /\ t_host' = Some(Unwrap(found)[1])
               /\ t_addr' = Some(Unwrap(found)[2])
               /\ t_pc' = "tls_connector_new"
               /\ t_stages' = Attempted("create_host_and_authority", TRUE)
               /\ UNCHANGED t_ret
    /\ UNCHANGED <<t_req, t_conn>>
    /\ UNCHANGED cycle_vars

\* one stage of the call that the outside world lets succeed or fail: a
\* failure returns its error (lines 39, 43, 51, 65, 71, 77)
Stage(at, stage, to, error) ==
    /\ t_pc = at
    /\ \E ok \in BOOLEAN :
         /\ t_stages' = Attempted(stage, ok)
         /\ IF ok
            THEN t_pc' = to /\ UNCHANGED t_ret
            ELSE t_pc' = "returned" /\ t_ret' = Some(Err(error))
    /\ UNCHANGED <<t_req, t_host, t_addr>>
    /\ UNCHANGED cycle_vars

\* lines 63-66
TlsConnectorNew ==
    /\ Stage("tls_connector_new", "tls_connector_new", "tcp_connect",
             "tls connector error")
    /\ UNCHANGED t_conn

\* lines 68-73
TcpConnect ==
    /\ Stage("tcp_connect", "tcp_connect", "tls_connect", "tcp connect error")
    /\ UNCHANGED t_conn

\* lines 75-78, 37-40
TlsConnect ==
    /\ Stage("tls_connect", "tls_connect", "http1_handshake", "tls handshake error")
    /\ UNCHANGED t_conn

\* lines 41-47: after the handshake the connection is spawned as its own task
Http1Handshake ==
    /\ Stage("http1_handshake", "http1_handshake", "send_request",
             "http handshake error")
    /\ t_conn' = IF t_pc' = "send_request" THEN "running" ELSE t_conn

\* lines 49-54
SendRequest_awaits_driver ==
    /\ t_pc = "send_request"
    /\ t_conn # "running"
    /\ \E ok \in BOOLEAN :
         /\ t_stages' = Attempted("send_request", ok)
         /\ t_ret' = IF ok /\ t_conn = "finished" THEN Some(Ok("response"))
                     ELSE Some(Err("send request error"))
    /\ t_pc' = "returned"
    /\ UNCHANGED <<t_req, t_host, t_addr, t_conn>>
    /\ UNCHANGED cycle_vars
SendRequest ==
    /\ t_pc = "send_request"
    /\ \E ok \in BOOLEAN :
         /\ t_stages' = Attempted("send_request", ok)
         /\ t_ret' = IF ok THEN Some(Ok("response"))
                     ELSE Some(Err("send request error"))
    /\ t_pc' = "returned"
    /\ UNCHANGED <<t_req, t_host, t_addr, t_conn>>
    /\ UNCHANGED cycle_vars

\* lines 45-47: the spawned task ends, with or without a connection error,
\* before or after the call has returned
ConnectionDriver ==
    /\ t_conn = "running"
    /\ t_conn' \in {"finished", "failed"}
    /\ UNCHANGED <<t_req, t_pc, t_host, t_addr, t_stages, t_ret>>
    /\ UNCHANGED cycle_vars

TransportIdle ==
    /\ t_req = [host |-> None, scheme |-> None, port |-> None]
    /\ t_pc = "idle"
    /\ t_host = None
    /\ t_addr = None
    /\ t_stages = <<>>
    /\ t_conn = "none"
    /\ t_ret = None

Init ==
    /\ results = IpServiceResult_new
    /\ prior = IpServiceResult_new
    /\ config = <<>>
    /\ cycles = 0
    /\ resolved = <<>>
    /\ lookup_calls = 0
    /\ rng_calls = 0
    /\ TransportIdle

Next == RequestIp

Spec == Init /\ [][Next]_vars

TransportInit ==
    /\ results = IpServiceResult_new
    /\ prior = IpServiceResult_new
    /\ config = <<>>
    /\ cycles = 0
    /\ resolved = <<>>
    /\ lookup_calls = 0
    /\ rng_calls = 0
    /\ t_req \in Uris
    /\ t_pc = "create_host_and_authority"
    /\ t_host = None
    /\ t_addr = None
    /\ t_stages = <<>>
    /\ t_conn = "none"
    /\ t_ret = None

TransportNext ==
    \/ HostAndAuthority
    \/ TlsConnectorNew
    \/ TcpConnect
    \/ TlsConnect
    \/ Http1Handshake
    \/ SendRequest
    \/ ConnectionDriver

TransportSpec == TransportInit /\ [][TransportNext]_vars

(***************************************************************************)
(* Properties of the run cycles (Spec)                                     *)
(***************************************************************************)
Ran == cycles > 0

\* C1 as stated: with two or more services configured, a cycle never
\* returns the service of the cycle before it, whatever the list holds.
C1_NeverRepeatsAnyList ==
    (Ran /\ Len(config) >= 2) => results.service # prior.service

\* C1 amended: with two or more services configured, of which at most one
\* has the url of the last run's service (present or absent, in the list or
\* not), a cycle never returns the service of the cycle before it.
Occurrences(service, ip_services) ==
    Cardinality({i \in 1..Len(ip_services) :
                    service # None /\ ip_services[i][1] = service[1]})
C1_NeverRepeatsUnlessListedTwice ==
    (Ran /\ Len(config) >= 2 /\ Occurrences(prior.service, config) <= 1) =>
        /\ IsSome(results.service)
        /\ results.service # prior.service

C1_Witness ==
    /\ Ran /\ Len(config) >= 2
    /\ Occurrences(prior.service, config) = 1
    /\ cycles >= 3

\* C2: address_changed of a cycle that made its lookup is, for the last
\* run's address p and the new address n: p and n present, whether they
\* differ; p absent and n present, true; n absent, false.
ChangedTable(p, n) ==
    CASE p # None /\ n # None -> p[1] # n[1]
      [] p = None /\ n # None -> TRUE
      [] p # None /\ n = None -> FALSE
      [] p = None /\ n = None -> FALSE
C2_HasAddressChangedTable ==
    (Ran /\ lookup_calls = 1) =>
        results.address_changed = ChangedTable(prior.address, results.address)

C2_Witness ==
    /\ Ran /\ lookup_calls = 1
    /\ prior.address = None /\ IsSome(results.address)
    /\ IsSome(prior.prev_address)

\* C3: a cycle's prev_address is the last run's address when present, else
\* the last run's prev_address, whatever the cycle's outcome; so it is the
\* address of the most recent earlier cycle that resolved one.
RECURSIVE MostRecentResolved(_)
MostRecentResolved(history) ==
    IF history = <<>> THEN None
    ELSE IF history[Len(history)] # None THEN history[Len(history)]
    ELSE MostRecentResolved(SubSeq(history, 1, Len(history) - 1))
C3_PrevAddressCarried ==
    Ran =>
        /\ prior.address # None => results.prev_address = prior.address
        /\ prior.address = None => results.prev_address = prior.prev_address
        /\ results.prev_address =
               MostRecentResolved(SubSeq(resolved, 1, Len(resolved) - 1))

C3_Witness ==
    /\ Ran
    /\ prior.address = None /\ IsSome(prior.prev_address)
    /\ results.address = None
    /\ results.prev_address = prior.prev_address

\* C4: a returned result without an address has address_changed false and
\* at least one error.
C4_NoAddressMeansUnchangedWithError ==
    (Ran /\ results.address = None) =>
        /\ results.address_changed = FALSE
        /\ Len(results.errors) >= 1

C4_Witness ==
    /\ Ran /\ results.address = None
    /\ lookup_calls = 1
    /\ IsSome(prior.address)
    /\ results.errors # <<>>

\* C5: with exactly one service configured the cycle uses it, whatever the
\* last run's service was, and draws no random number.
C5_SoleServiceAlwaysUsed ==
    (Ran /\ Len(config) = 1) =>
        /\ results.service = Some(config[1][1])
        /\ rng_calls = 0
        /\ \A drawn \in gen_range(prior, config) :
               get_ip_service(prior, config, drawn) = Some(config[1])

C5_Witness ==
    /\ Ran /\ Len(config) = 1
    /\ prior.service = Some(config[1][1])
    /\ results.service = prior.service

\* C6: with no service configured the selection yields nothing, and the
\* cycle records an error, makes no lookup and returns no service.
C6_NoServiceConfigured ==
    (Ran /\ Len(config) = 0) =>
        /\ \A drawn \in gen_range(prior, config) :
               get_ip_service(prior, config, drawn) = None
        /\ results.service = None
        /\ lookup_calls = 0
        /\ results.errors = <<"failed to find ip service">>

C6_Witness ==
    /\ Ran /\ Len(config) = 0
    /\ IsSome(prior.service)
    /\ results.service = None /\ lookup_calls = 0

\* C8: with n >= 2 services, the positions the selection can return are
\* all but the first position holding the last run's service, or all of
\* them when that service is absent or not listed; the position is within
\* 0..n-1 and the random range is not empty.
FirstPosition(service, ip_services) ==
    LET hits == {i \in 1..Len(ip_services) :
                    service # None /\ ip_services[i][1] = service[1]}
    IN IF hits = {} THEN {}
       ELSE {(CHOOSE i \in hits : \A j \in hits : i <= j) - 1}
C9_ChangedAgainstLastKnown ==
    Ran =>
        /\ (IsSome(results.address) /\ results.address = results.prev_address)
               => results.address_changed = FALSE
        /\ IsSome(results.prev_address) =>
               (results.address_changed <=>
                   (IsSome(results.address)
                       /\ results.address # results.prev_address))

(***************************************************************************)
(* Properties of one request (TransportSpec)                               *)
(***************************************************************************)
\* C7: the connect address is host:port, the port being the uri's own when
\* it has one, else 80 for scheme http and 443 for any other or no scheme;
\* nothing is yielded exactly when the uri has no host, and then the call
\* returns an error with no connection attempted.
PortText(port) == CASE port = 80 -> "80" [] port = 8080 -> "8080"
ExpectedPort(uri) ==
    IF uri.port # None THEN PortText(uri.port[1])
    ELSE IF uri.scheme = <<"http">> THEN "80"
    ELSE "443"
C7_HostAndAuthority ==
    /\ (create_host_and_authority(t_req) = None) <=> (t_req.host = None)
    /\ Len(t_stages) >= 1 =>
          IF t_req.host = None
          THEN /\ t_ret = Some(Err("failed to get host and address from uri"))
               /\ Len(t_stages) = 1
               /\ t_addr = None
               /\ t_conn = "none"
          ELSE /\ t_stages[1].ok
               /\ t_host = t_req.host
               /\ t_addr = Some(t_req.host[1] \o ":" \o ExpectedPort(t_req))

C7_Witness ==
    /\ Len(t_stages) >= 1
    /\ t_req.scheme = Some("ftp") /\ t_req.port = None
    /\ t_addr = Some("example.com:443")

\* C10: the stages run in the order host extraction, TLS context, TCP
\* connect, TLS handshake, HTTP/1.1 handshake, request send; the first one
\* to fail returns an error and nothing runs after it; the connection
\* driver exists only after a successful HTTP handshake; and the call
\* returns the response whenever the send yields one, whatever the driver
\* does.
StageOrder ==
    <<"create_host_and_authority", "tls_connector_new", "tcp_connect",
      "tls_connect", "http1_handshake", "send_request">>
C10_StagesInOrder ==
    LET n == Len(t_stages)
    IN /\ n <= Len(StageOrder)
       /\ \A i \in 1..n : t_stages[i].stage = StageOrder[i]
       /\ \A i \in 1..(n - 1) : t_stages[i].ok
       /\ (n >= 1 /\ ~t_stages[n].ok) =>
              /\ t_pc = "returned"
              /\ IsSome(t_ret) /\ ~t_ret[1].ok
       /\ t_conn # "none" => (n >= 5 /\ t_stages[5].ok)
       /\ (n >= 5 /\ t_stages[5].ok) => t_conn # "none"
       /\ (n = 6 /\ t_stages[6].ok) => t_ret = Some(Ok("response"))
       /\ (IsSome(t_ret) /\ t_ret[1].ok) => (n = 6 /\ t_stages[6].ok)
       /\ t_pc = "returned" <=> IsSome(t_ret)

C10_Witness ==
    /\ t_ret = Some(Ok("response"))
    /\ t_conn = "failed"
    /\ Len(t_stages) = 6

====
